---- MODULE Spec2Model ----
(***************************************************************************)
(* A model of image-blobber (src/index.ts): getFileBlobs, getBase64,       *)
(* getImageData and scaleBase64, with the host (FileReader, Image, canvas) *)
(* as the environment that delivers load / abort / error events.           *)
(*                                                                         *)
(* JavaScript numbers are modelled as exact rationals (Rat), so a result   *)
(* such as 100 * (50 / 200) is the fraction 25/1; floating point rounding  *)
(* is not modelled.  undefined is the empty tuple and a number n is <<n>>. *)
(***************************************************************************)
EXTENDS Integers, Sequences, FiniteSets, TLC

\* Natural image sizes are drawn from 1..MaxDim and the sizes of the
\* documented examples; option values from 0..MaxOpt and the examples' values.
MaxDim == 4
MaxOpt == 4
MaxFiles == 3
\* Concurrent scaleBase64 calls in ConcSpec.
MaxConcurrent == 2

Calls == {1}
ConcCalls == 1..MaxConcurrent

ExampleDims == {100, 200}
ExampleOpts == {50, 300}
NaturalSizes == (1..MaxDim) \cup ExampleDims
OptionNumbers == (0..MaxOpt) \cup ExampleOpts

---------------------------------------------------------------------------
\* JavaScript values

Undefined == <<>>
Num(n) == <<n>>
IsNumber(x) == Len(x) = 1
\* ToBoolean of a number-or-undefined: undefined and 0 are falsy.
Truthy(x) == IsNumber(x) /\ x[1] # 0
\* x || 0 for a number-or-undefined x.
OrZero(x) == IF Truthy(x) THEN x[1] ELSE 0

RECURSIVE Gcd(_, _)
Gcd(a, b) == IF b = 0 THEN a ELSE Gcd(b, a % b)

\* The rational n/d (d > 0, n >= 0) in lowest terms.
Rat(n, d) == LET g == Gcd(n, d) IN [num |-> n \div g, den |-> d \div g]
RatOfInt(n) == Rat(n, 1)
RatMulInt(n, r) == Rat(n * r.num, r.den)
RatLEInt(r, n) == r.num <= n * r.den
RatIsInt(r) == r.den = 1
\* The conversion of a non-negative number to a canvas size (an integer).
RatFloor(r) == r.num \div r.den

---------------------------------------------------------------------------
\* Encoded images, files, options

\* A data URL whose bytes decode to an image of the given natural size.
Input(h, w) == [tag |-> "input", height |-> h, width |-> w]
\* A string that is not a decodable image.
Corrupt == [tag |-> "corrupt", height |-> 0, width |-> 0]
NoBase64 == [tag |-> "none", height |-> 0, width |-> 0]
Base64Inputs == {Input(h, w) : h \in NaturalSizes, w \in NaturalSizes} \cup {Corrupt}

OptionValues == {Undefined} \cup {Num(n) : n \in OptionNumbers}
PreserveValues == {"undefined", "true", "false"}
ScaleOptions == [height : OptionValues, width : OptionValues, preserveRatio : PreserveValues]
NoOptions == [height |-> Undefined, width |-> Undefined, preserveRatio |-> "undefined"]

NoDimensions == [height |-> RatOfInt(0), width |-> RatOfInt(0)]

---------------------------------------------------------------------------
\* scaleBase64: the computation of the then-callback (src/index.ts 125-167)

\* The precondition check at the entry of scaleBase64.
\* Variant: the check compares against null, which undefined never equals.
InvalidOptionsNullCheck(o) == FALSE
InvalidOptions(o) == ~IsNumber(o.height) /\ ~IsNumber(o.width)

\* fullDimensions: the natural size reported by the loaded image.
FullDimensions(b) == [height |-> b.height, width |-> b.width]

\* dimensions = { height: fullDimensions.height, width: fullDimensions.width }
InitialDimensions(full) == [height |-> RatOfInt(full.height), width |-> RatOfInt(full.width)]

\* options.preserveRatio === false
FreeScaling(o) == o.preserveRatio = "false"

\* dimensions.height = options.height || dimensions.height (and width).
\* Variant: ?? in place of ||, so that 0 counts as provided.
FreeDimensionsNullish(full, o) ==
    [height |-> IF IsNumber(o.height) THEN RatOfInt(o.height[1]) ELSE RatOfInt(full.height),
     width  |-> IF IsNumber(o.width) THEN RatOfInt(o.width[1]) ELSE RatOfInt(full.width)]
FreeDimensions(full, o) ==
    [height |-> IF Truthy(o.height) THEN RatOfInt(o.height[1]) ELSE RatOfInt(full.height),
     width  |-> IF Truthy(o.width) THEN RatOfInt(o.width[1]) ELSE RatOfInt(full.width)]

\* scaleDown: a truthy height exceeded or a truthy width exceeded.
\* Variant: >= in place of >.
ScaleDownOrEqual(full, o) ==
    \/ Truthy(o.height) /\ full.height >= o.height[1]
    \/ Truthy(o.width) /\ full.width >= o.width[1]
ScaleDown(full, o) ==
    \/ Truthy(o.height) /\ full.height > o.height[1]
    \/ Truthy(o.width) /\ full.width > o.width[1]

LargerDimension(full) == IF full.height > full.width THEN full.height ELSE full.width
ChosenHeight(o) == OrZero(o.height)
ChosenWidth(o) == OrZero(o.width)

\* percentage: 1 unless a chosen size is positive.
\* Variant: a square image takes the height constraint (>= in place of >).
PercentageTieToHeight(full, o) ==
    IF ChosenHeight(o) > 0 /\ ChosenWidth(o) > 0
    THEN LET dimension == IF full.height >= full.width THEN ChosenHeight(o) ELSE ChosenWidth(o)
         IN  Rat(dimension, LargerDimension(full))
    ELSE IF ChosenHeight(o) > 0 THEN Rat(ChosenHeight(o), LargerDimension(full))
    ELSE IF ChosenWidth(o) > 0 THEN Rat(ChosenWidth(o), LargerDimension(full))
    ELSE Rat(1, 1)
Percentage(full, o) ==
    IF ChosenHeight(o) > 0 /\ ChosenWidth(o) > 0
    THEN LET dimension == IF full.height > full.width THEN ChosenHeight(o) ELSE ChosenWidth(o)
         IN  Rat(dimension, LargerDimension(full))
    ELSE IF ChosenHeight(o) > 0 THEN Rat(ChosenHeight(o), LargerDimension(full))
    ELSE IF ChosenWidth(o) > 0 THEN Rat(ChosenWidth(o), LargerDimension(full))
    ELSE Rat(1, 1)

\* dimensions.height = fullDimensions.height * percentage (and width).
RatioDimensions(full, o) ==
    [height |-> RatMulInt(full.height, Percentage(full, o)),
     width  |-> RatMulInt(full.width, Percentage(full, o))]

\* Whether the callback returns the input unchanged before any canvas work.
ShortCircuit(full, o) == ~FreeScaling(o) /\ ~ScaleDown(full, o)

\* The dimensions the callback reports for natural size full under options o.
ResultDimensions(full, o) ==
    IF FreeScaling(o) THEN FreeDimensions(full, o)
    ELSE IF ~ScaleDown(full, o) THEN InitialDimensions(full)
    ELSE RatioDimensions(full, o)

---------------------------------------------------------------------------
\* The render step of the then-callback (src/index.ts 169-196)

NoCanvas == [created |-> FALSE, context |-> FALSE, height |-> 0, width |-> 0,
             drawn |-> FALSE, encoded |-> FALSE]

\* canvas.toDataURL(): a string that encodes the surface at its size.
ToDataURL(h, w) == [tag |-> "canvas", height |-> h, width |-> w]

\* createElement, getContext, the null check, the sizing, drawImage and
\* toDataURL; hasContext is the host's answer to getContext("2d").
\* Variant: the null check dropped and the draw skipped without a context.
RenderIgnoringContext(dimensions, hasContext) ==
    [threw  |-> FALSE,
     canvas |-> [created |-> TRUE, context |-> hasContext,
                 height |-> RatFloor(dimensions.height),
                 width |-> RatFloor(dimensions.width),
                 drawn |-> hasContext, encoded |-> TRUE],
     base64 |-> ToDataURL(RatFloor(dimensions.height), RatFloor(dimensions.width))]
Render(dimensions, hasContext) ==
    IF ~hasContext
    THEN [threw  |-> TRUE,
          canvas |-> [NoCanvas EXCEPT !.created = TRUE],
          base64 |-> NoBase64]
    ELSE [threw  |-> FALSE,
          canvas |-> [created |-> TRUE, context |-> TRUE,
                      height |-> RatFloor(dimensions.height),
                      width |-> RatFloor(dimensions.width),
                      drawn |-> TRUE, encoded |-> TRUE],
          base64 |-> ToDataURL(RatFloor(dimensions.height), RatFloor(dimensions.width))]

---------------------------------------------------------------------------
\* Promises

NoPromise == [state |-> "none", base64 |-> NoBase64, dimensions |-> NoDimensions,
              filename |-> "", reason |-> ""]
Pending == [NoPromise EXCEPT !.state = "pending"]
Thrown(msg) == [NoPromise EXCEPT !.state = "thrown", !.reason = msg]
Rejected(reason) == [NoPromise EXCEPT !.state = "rejected", !.reason = reason]
Fulfilled(b, d, name) == [NoPromise EXCEPT !.state = "fulfilled", !.base64 = b,
                                            !.dimensions = d, !.filename = name]

NoImage == [state |-> "none", src |-> NoBase64]
NoImageData == [state |-> "none", height |-> 0, width |-> 0, reason |-> ""]

\* What the then-callback of scaleBase64 does with the loaded image: the
\* promise it settles and the canvas it leaves behind.
ScaleCallback(b, full, o, hasContext) ==
    IF ShortCircuit(full, o)
    THEN [canvas |-> NoCanvas,
          promise |-> Fulfilled(b, InitialDimensions(full), "")]
    ELSE LET dimensions == ResultDimensions(full, o)
             r == Render(dimensions, hasContext)
         IN  [canvas |-> r.canvas,
              promise |-> IF r.threw
                          THEN Rejected("image-blobber package failed to get canvas context.")
                          ELSE Fulfilled(r.base64, dimensions, "")]

---------------------------------------------------------------------------
\* State

VARIABLES
    op,         \* op[c]: the public function call c is, or "idle"
    base64,     \* the string handed to getImageData by call c
    options,    \* the ScaleOptions of a scaleBase64 call
    file,       \* the File of a getBase64 call
    reader,     \* the FileReader of a getBase64 call
    image,      \* the Image element created by getImageData
    imageData,  \* the promise getImageData returned
    job,        \* the promise reaction job queued for call c
    canvas,     \* the canvas element of the render step
    output,     \* the promise getBase64 derives with then() and resolves with
    returned,   \* what the caller got: a promise, or a synchronous throw
    outcomes,   \* how many outcomes call c has delivered to its caller
    input,      \* the file input handed to getFileBlobs
    blobs       \* the array getFileBlobs resolved with

vars == <<op, base64, options, file, reader, image, imageData, job, canvas,
          output, returned, outcomes, input, blobs>>

NoFile == [name |-> "", data |-> NoBase64]
NoInput == [files |-> <<>>, isNull |-> TRUE]

\* The state before any of the calls in S is made.
InitOf(S) ==
    /\ op = [c \in S |-> "idle"]
    /\ base64 = [c \in S |-> NoBase64]
    /\ options = [c \in S |-> NoOptions]
    /\ file = [c \in S |-> NoFile]
    /\ reader = [c \in S |-> "none"]
    /\ image = [c \in S |-> NoImage]
    /\ imageData = [c \in S |-> NoImageData]
    /\ job = [c \in S |-> "none"]
    /\ canvas = [c \in S |-> NoCanvas]
    /\ output = [c \in S |-> NoPromise]
    /\ returned = [c \in S |-> NoPromise]
    /\ outcomes = [c \in S |-> 0]
    /\ input = [c \in S |-> NoInput]
    /\ blobs = [c \in S |-> <<>>]

Init == InitOf(Calls)

---------------------------------------------------------------------------
\* getImageData and the host's image events

\* scaleBase64(b, o): the synchronous part.  Invalid options throw before
\* getImageData is called; otherwise the image starts decoding and the
\* promise of the then-callback is returned.
ScaleBase64With(c, strings, optionSets) ==
    /\ op[c] = "idle"
    /\ \E b \in strings, o \in optionSets :
        /\ op' = [op EXCEPT ![c] = "scaleBase64"]
        /\ options' = [options EXCEPT ![c] = o]
        /\ IF InvalidOptions(o)
           THEN /\ returned' = [returned EXCEPT ![c] = Thrown("scaleBase64() did not receive valid scaling options.")]
                /\ outcomes' = [outcomes EXCEPT ![c] = @ + 1]
                /\ UNCHANGED <<base64, image, imageData>>
           ELSE /\ base64' = [base64 EXCEPT ![c] = b]
                /\ image' = [image EXCEPT ![c] = [state |-> "decoding", src |-> b]]
                /\ imageData' = [imageData EXCEPT ![c] = [NoImageData EXCEPT !.state = "pending"]]
                /\ returned' = [returned EXCEPT ![c] = Pending]
                /\ UNCHANGED outcomes
    /\ UNCHANGED <<file, reader, job, canvas, output, input, blobs>>

ScaleBase64(c) == ScaleBase64With(c, Base64Inputs, ScaleOptions)

\* image.onload: the promise of getImageData resolves with the natural size
\* and its then-reaction is queued.
ImageOnload(c) ==
    /\ image[c].state = "decoding"
    /\ image[c].src.tag # "corrupt"
    /\ image' = [image EXCEPT ![c].state = "loaded"]
    /\ imageData' = [imageData EXCEPT ![c] =
                        [state |-> "fulfilled", height |-> image[c].src.height,
                         width |-> image[c].src.width, reason |-> ""]]
    /\ job' = [job EXCEPT ![c] = "then"]
    /\ UNCHANGED <<op, base64, options, file, reader, canvas, output, returned, outcomes, input, blobs>>

\* image.onabort: the promise of getImageData rejects with the event and the
\* rejection is queued for the derived promise.
ImageOnabort(c) ==
    /\ image[c].state = "decoding"
    /\ image' = [image EXCEPT ![c].state = "aborted"]
    /\ imageData' = [imageData EXCEPT ![c] = [NoImageData EXCEPT !.state = "rejected", !.reason = "abort"]]
    /\ job' = [job EXCEPT ![c] = "catch"]
    /\ UNCHANGED <<op, base64, options, file, reader, canvas, output, returned, outcomes, input, blobs>>

\* The host reports a decode failure with an error event; getImageData sets
\* no onerror handler, so nothing of the call changes.
ImageOnerror(c) ==
    /\ image[c].state = "decoding"
    /\ image' = [image EXCEPT ![c].state = "errored"]
    /\ UNCHANGED <<op, base64, options, file, reader, imageData, job, canvas, output, returned, outcomes, input, blobs>>

\* The imageData the then-callback of call c receives: the value its own
\* getImageData promise resolved with.
\* Variant: the decoded image is kept in one variable shared by all calls.
LoadedImageDataShared(c) ==
    imageData[CHOOSE d \in DOMAIN imageData : imageData[d].state = "fulfilled"]
LoadedImageData(c) == imageData[c]

\* The then-callback of scaleBase64 runs to completion.
ScaleThen(c) ==
    /\ op[c] = "scaleBase64"
    /\ job[c] = "then"
    /\ \E hasContext \in BOOLEAN :
        LET r == ScaleCallback(base64[c], LoadedImageData(c), options[c], hasContext)
        IN  /\ canvas' = [canvas EXCEPT ![c] = r.canvas]
            /\ returned' = [returned EXCEPT ![c] = r.promise]
    /\ job' = [job EXCEPT ![c] = "none"]
    /\ outcomes' = [outcomes EXCEPT ![c] = @ + 1]
    /\ UNCHANGED <<op, base64, options, file, reader, image, imageData, output, input, blobs>>

\* A rejected getImageData promise rejects the promise derived by then().
ScaleCatch(c) ==
    /\ op[c] = "scaleBase64"
    /\ job[c] = "catch"
    /\ returned' = [returned EXCEPT ![c] = Rejected(imageData[c].reason)]
    /\ job' = [job EXCEPT ![c] = "none"]
    /\ outcomes' = [outcomes EXCEPT ![c] = @ + 1]
    /\ UNCHANGED <<op, base64, options, file, reader, image, imageData, canvas, output, input, blobs>>

---------------------------------------------------------------------------
\* getBase64 and the host's FileReader events

FileNames == {"a.png", "b.png"}
Files == [name : FileNames, data : Base64Inputs]

\* getBase64(f): the executor starts the read and the promise is returned.
GetBase64(c) ==
    /\ op[c] = "idle"
    /\ \E f \in Files :
        /\ file' = [file EXCEPT ![c] = f]
    /\ op' = [op EXCEPT ![c] = "getBase64"]
    /\ reader' = [reader EXCEPT ![c] = "reading"]
    /\ returned' = [returned EXCEPT ![c] = Pending]
    /\ UNCHANGED <<base64, options, image, imageData, job, canvas, output, outcomes, input, blobs>>

\* fileReader.onload: the data URL goes to getImageData and the returned
\* promise is resolved with the promise derived by then().
ReaderOnload(c) ==
    /\ reader[c] = "reading"
    /\ reader' = [reader EXCEPT ![c] = "loaded"]
    /\ base64' = [base64 EXCEPT ![c] = file[c].data]
    /\ image' = [image EXCEPT ![c] = [state |-> "decoding", src |-> file[c].data]]
    /\ imageData' = [imageData EXCEPT ![c] = [NoImageData EXCEPT !.state = "pending"]]
    /\ output' = [output EXCEPT ![c] = Pending]
    /\ UNCHANGED <<op, options, file, job, canvas, returned, outcomes, input, blobs>>

\* fileReader.onabort: the returned promise rejects with the event.
ReaderOnabort(c) ==
    /\ reader[c] = "reading"
    /\ reader' = [reader EXCEPT ![c] = "aborted"]
    /\ returned' = [returned EXCEPT ![c] = Rejected("abort")]
    /\ outcomes' = [outcomes EXCEPT ![c] = @ + 1]
    /\ UNCHANGED <<op, base64, options, file, image, imageData, job, canvas, output, input, blobs>>

\* The host reports a failed read with an error event; getBase64 sets no
\* onerror handler.
ReaderOnerror(c) ==
    /\ reader[c] = "reading"
    /\ reader' = [reader EXCEPT ![c] = "errored"]
    /\ UNCHANGED <<op, base64, options, file, image, imageData, job, canvas, output, returned, outcomes, input, blobs>>

\* The then-callback of getBase64 composes the BlobDetails.
Base64Then(c) ==
    /\ op[c] = "getBase64"
    /\ job[c] = "then"
    /\ output' = [output EXCEPT ![c] =
                     Fulfilled(base64[c], InitialDimensions(imageData[c]), file[c].name)]
    /\ job' = [job EXCEPT ![c] = "adopt"]
    /\ UNCHANGED <<op, base64, options, file, reader, image, imageData, canvas, returned, outcomes, input, blobs>>

\* A rejected getImageData promise rejects the promise derived by then().
Base64Catch(c) ==
    /\ op[c] = "getBase64"
    /\ job[c] = "catch"
    /\ output' = [output EXCEPT ![c] = Rejected(imageData[c].reason)]
    /\ job' = [job EXCEPT ![c] = "adopt"]
    /\ UNCHANGED <<op, base64, options, file, reader, image, imageData, canvas, returned, outcomes, input, blobs>>

\* The returned promise takes the state of the promise it was resolved with.
Base64Adopt(c) ==
    /\ op[c] = "getBase64"
    /\ job[c] = "adopt"
    /\ returned' = [returned EXCEPT ![c] = output[c]]
    /\ job' = [job EXCEPT ![c] = "none"]
    /\ outcomes' = [outcomes EXCEPT ![c] = @ + 1]
    /\ UNCHANGED <<op, base64, options, file, reader, image, imageData, canvas, output, input, blobs>>

---------------------------------------------------------------------------
\* getFileBlobs

ListedNames == {"a.png", "b.png", "c.png"}
ListedFiles == [name : ListedNames, data : {Input(1, 1)}]

RECURSIVE SeqsUpTo(_, _)
SeqsUpTo(S, n) ==
    IF n = 0 THEN {<<>>}
    ELSE LET shorter == SeqsUpTo(S, n - 1)
         IN  shorter \cup {Append(q, x) : q \in shorter, x \in S}

\* input.files is null or a FileList of at most MaxFiles files.
FileInputs == {NoInput} \cup {[files |-> q, isNull |-> FALSE] : q \in SeqsUpTo(ListedFiles, MaxFiles)}

\* input.files || []
FilesOrEmpty(i) == IF i.isNull THEN <<>> ELSE i.files

\* [...list]: the iterator reads item 1, 2, ... until the length is reached.
RECURSIVE SpreadFrom(_, _, _)
SpreadFrom(list, i, acc) ==
    IF i > Len(list) THEN acc ELSE SpreadFrom(list, i + 1, Append(acc, list[i]))
\* Variant: the copy stops one item early.
SpreadSkippingLast(list) == SpreadFrom(SubSeq(list, 1, Len(list) - 1), 1, <<>>)
Spread(list) == SpreadFrom(list, 1, <<>>)

\* getFileBlobs(i): Promise.resolve of the copied array.
GetFileBlobs(c) ==
    /\ op[c] = "idle"
    /\ \E i \in FileInputs :
        /\ input' = [input EXCEPT ![c] = i]
        /\ blobs' = [blobs EXCEPT ![c] = Spread(FilesOrEmpty(i))]
    /\ op' = [op EXCEPT ![c] = "getFileBlobs"]
    /\ returned' = [returned EXCEPT ![c] = [NoPromise EXCEPT !.state = "fulfilled"]]
    /\ outcomes' = [outcomes EXCEPT ![c] = @ + 1]
    /\ UNCHANGED <<base64, options, file, reader, image, imageData, job, canvas, output>>

---------------------------------------------------------------------------

Next ==
    \E c \in Calls :
        \/ ScaleBase64(c)
        \/ ImageOnload(c)
        \/ ImageOnabort(c)
        \/ ImageOnerror(c)
        \/ ScaleThen(c)
        \/ ScaleCatch(c)
        \/ GetBase64(c)
        \/ ReaderOnload(c)
        \/ ReaderOnabort(c)
        \/ ReaderOnerror(c)
        \/ Base64Then(c)
        \/ Base64Catch(c)
        \/ Base64Adopt(c)
        \/ GetFileBlobs(c)

Spec == Init /\ [][Next]_vars

---------------------------------------------------------------------------
\* Properties

\* preserveRatio absent or true.
RatioMode(o) == o.preserveRatio # "false"
\* A constraint is given when the option is a number, and positive when > 0.
Given(x) == IsNumber(x)
Positive(x) == IsNumber(x) /\ x[1] > 0
\* The then-callback of scaleBase64 call c has run on a loaded image.
CallbackRan(c) == op[c] = "scaleBase64" /\ image[c].state = "loaded" /\ job[c] = "none"
\* Call c is a scaleBase64 call that resolved.
Resolved(c) == CallbackRan(c) /\ returned[c].state = "fulfilled"
NaturalHeight(c) == image[c].src.height
NaturalWidth(c) == image[c].src.width

\* C1: in ratio-preserving mode the resolved dimensions exceed no positive
\* constraint: height <= options.height and width <= options.width.
C1_ConstraintsRespected ==
    \A c \in Calls :
        (Resolved(c) /\ RatioMode(options[c])) =>
            /\ Positive(options[c].height) =>
                   RatLEInt(returned[c].dimensions.height, options[c].height[1])
            /\ Positive(options[c].width) =>
                   RatLEInt(returned[c].dimensions.width, options[c].width[1])

\* C2: a scaleBase64 call whose options hold no number for height and none
\* for width has thrown on the caller's turn, and no image, decode or promise
\* exists for it.
C2_InvalidOptionsThrowSynchronously ==
    \A c \in Calls :
        (op[c] = "scaleBase64" /\ ~IsNumber(options[c].height) /\ ~IsNumber(options[c].width)) =>
            /\ returned[c].state = "thrown"
            /\ outcomes[c] = 1
            /\ image[c].state = "none"
            /\ imageData[c].state = "none"
            /\ job[c] = "none"

C2_Witness ==
    \E c \in Calls :
        /\ op[c] = "scaleBase64"
        /\ options[c].height = Undefined /\ options[c].width = Undefined
        /\ returned[c].state = "thrown"

\* Every given constraint is already met by the natural size of call c.
ConstraintsMet(c) ==
    /\ Given(options[c].height) => NaturalHeight(c) <= options[c].height[1]
    /\ Given(options[c].width) => NaturalWidth(c) <= options[c].width[1]

\* C3: in ratio-preserving mode, when the natural size meets every given
\* constraint, the call resolves with the input string and the natural
\* size, and no canvas was created, drawn on or encoded.
C3_NoOpReturnsInput ==
    \A c \in Calls :
        (CallbackRan(c) /\ RatioMode(options[c]) /\ ConstraintsMet(c)) =>
            /\ returned[c].state = "fulfilled"
            /\ returned[c].base64 = image[c].src
            /\ returned[c].dimensions.height = RatOfInt(NaturalHeight(c))
            /\ returned[c].dimensions.width = RatOfInt(NaturalWidth(c))
            /\ canvas[c] = NoCanvas

C3_Witness ==
    \E c \in Calls :
        /\ CallbackRan(c) /\ RatioMode(options[c]) /\ ConstraintsMet(c)
        /\ Given(options[c].height) /\ Given(options[c].width)
        /\ NaturalHeight(c) = options[c].height[1]
        /\ NaturalWidth(c) < options[c].width[1]
        /\ returned[c].base64 = image[c].src

\* Downscaling is needed: a truthy constraint is exceeded by the natural size.
DownscaleNeeded(c) ==
    \/ Positive(options[c].height) /\ NaturalHeight(c) > options[c].height[1]
    \/ Positive(options[c].width) /\ NaturalWidth(c) > options[c].width[1]

\* The factor p of the claim, as the fraction numerator / max(H, W).
ClaimNumerator(H, W, o) ==
    IF Positive(o.height) /\ Positive(o.width)
    THEN (IF H > W THEN o.height[1] ELSE o.width[1])
    ELSE IF Positive(o.height) THEN o.height[1]
    ELSE o.width[1]
Max(a, b) == IF a >= b THEN a ELSE b

C5_NeverUpscales ==
    \A c \in Calls :
        (Resolved(c) /\ RatioMode(options[c])) =>
            /\ RatLEInt(returned[c].dimensions.height, NaturalHeight(c))
            /\ RatLEInt(returned[c].dimensions.width, NaturalWidth(c))

C6_ClaimedAxis(x, natural) == IF IsNumber(x) /\ x[1] # 0 THEN RatOfInt(x[1]) ELSE RatOfInt(natural)

\* C6: in free-scaling mode the callback always reaches the render step (a
\* canvas is created, and the call settles with the rendered string or the
\* context error), and a resolved call reports options.height when it is a
\* non-zero number, else H, and options.width when it is a non-zero number,
\* else W; 200x100 under {height: 300, width: 300} gives (300, 300).
C6_FreeScalingAxes ==
    \A c \in Calls :
        (CallbackRan(c) /\ options[c].preserveRatio = "false") =>
            /\ canvas[c].created
            /\ returned[c].state \in {"fulfilled", "rejected"}
            /\ returned[c].state = "fulfilled" =>
                /\ returned[c].dimensions.height = C6_ClaimedAxis(options[c].height, NaturalHeight(c))
                /\ returned[c].dimensions.width = C6_ClaimedAxis(options[c].width, NaturalWidth(c))
                /\ returned[c].base64.tag = "canvas"
                /\ canvas[c].drawn /\ canvas[c].encoded
                /\ (NaturalHeight(c) = 200 /\ NaturalWidth(c) = 100
                        /\ options[c].height = Num(300) /\ options[c].width = Num(300)) =>
                       returned[c].dimensions = [height |-> RatOfInt(300), width |-> RatOfInt(300)]

C6_Witness ==
    \E c \in Calls :
        /\ Resolved(c) /\ options[c].preserveRatio = "false"
        /\ NaturalHeight(c) = 200 /\ NaturalWidth(c) = 100
        /\ options[c].height = Num(300) /\ options[c].width = Num(0)
        /\ returned[c].dimensions = [height |-> RatOfInt(300), width |-> RatOfInt(100)]

\* C7: once the host has ended the image decode of a call in abort or in
\* error and no promise job of the call is left to run, the call has
\* failed, and it has delivered exactly one outcome.
C7_DecodeEndFailsCall ==
    \A c \in Calls :
        (image[c].state \in {"aborted", "errored"} /\ job[c] = "none") =>
            /\ returned[c].state = "rejected"
            /\ outcomes[c] = 1

\* Options p are o with each constraint equal or larger.
Looser(o, p) ==
    /\ p.preserveRatio = o.preserveRatio
    /\ IsNumber(p.height) = IsNumber(o.height)
    /\ IsNumber(p.width) = IsNumber(o.width)
    /\ IsNumber(o.height) => p.height[1] >= o.height[1]
    /\ IsNumber(o.width) => p.width[1] >= o.width[1]

\* C8: when a ratio-preserving call with positive constraints resolved with
\* (whole-pixel) dimensions D, scaling an image of natural size D under the same options, or under
\* options with equal or larger constraints, yields D again.
C8_RescaleIdempotent ==
    \A c \in Calls :
        (Resolved(c) /\ RatioMode(options[c])
            /\ (Given(options[c].height) => Positive(options[c].height))
            /\ (Given(options[c].width) => Positive(options[c].width))
            /\ RatIsInt(returned[c].dimensions.height)
            /\ RatIsInt(returned[c].dimensions.width)) =>
            LET D == returned[c].dimensions
                natural == [height |-> D.height.num, width |-> D.width.num]
            IN  \A p \in ScaleOptions :
                    Looser(options[c], p) => ResultDimensions(natural, p) = D

\* C9: when the host gave no 2D context for the canvas of a call, the call
\* is rejected and nothing was drawn or encoded.
C9_NoContextRejects ==
    \A c \in Calls :
        (canvas[c].created /\ ~canvas[c].context) =>
            /\ returned[c].state = "rejected"
            /\ ~canvas[c].drawn
            /\ ~canvas[c].encoded
            /\ returned[c].base64 = NoBase64

C9_Witness ==
    \E c \in Calls :
        /\ op[c] = "scaleBase64"
        /\ canvas[c].created /\ ~canvas[c].context
        /\ returned[c].state = "rejected"
        /\ outcomes[c] = 1

---------------------------------------------------------------------------
\* Concurrent scaleBase64 calls: every call in ConcCalls may be issued while
\* others are in flight, and the host delivers the image events and runs
\* the promise jobs of the calls in any order.

ConcStrings == {Input(2, 1), Input(1, 2), Corrupt}
ConcOptions ==
    {NoOptions,
     [height |-> Num(1), width |-> Undefined, preserveRatio |-> "undefined"],
     [height |-> Num(1), width |-> Num(1), preserveRatio |-> "true"],
     [height |-> Undefined, width |-> Num(3), preserveRatio |-> "false"]}

ConcInit == InitOf(ConcCalls)

ConcScaleBase64(c) == ScaleBase64With(c, ConcStrings, ConcOptions)

ConcNext ==
    \E c \in ConcCalls :
        \/ ConcScaleBase64(c)
        \/ ImageOnload(c)
        \/ ImageOnabort(c)
        \/ ImageOnerror(c)
        \/ ScaleThen(c)
        \/ ScaleCatch(c)

ConcSpec == ConcInit /\ [][ConcNext]_vars

\* Everything call c owns.
CallState(c) == <<op[c], base64[c], options[c], image[c], imageData[c], job[c],
                  canvas[c], returned[c], outcomes[c]>>

\* What a scaleBase64 call made alone has produced for string b and options
\* o once the host has answered its decode with event (the state of its
\* image) and its canvas request with hasContext, and its queued job, if
\* any, has run (pendingJob = "none").
AloneOutcome(b, o, event, pendingJob, hasContext) ==
    IF ~IsNumber(o.height) /\ ~IsNumber(o.width)
    THEN [returned |-> Thrown("scaleBase64() did not receive valid scaling options."),
          canvas |-> NoCanvas]
    ELSE IF event = "loaded" /\ pendingJob = "none"
    THEN LET r == ScaleCallback(b, FullDimensions(b), o, hasContext)
         IN  [returned |-> r.promise, canvas |-> r.canvas]
    ELSE IF event = "aborted" /\ pendingJob = "none"
    THEN [returned |-> Rejected("abort"), canvas |-> NoCanvas]
    ELSE [returned |-> Pending, canvas |-> NoCanvas]

\* After the step, call c holds exactly what it would hold had it been made
\* alone.
AsAlone(c) ==
    op'[c] = "scaleBase64" =>
        LET alone == AloneOutcome(image'[c].src, options'[c], image'[c].state, job'[c],
                                  canvas'[c].context)
        IN  /\ returned'[c] = alone.returned
            /\ canvas'[c] = alone.canvas
            /\ image'[c].state # "none" => image'[c].src = base64'[c]
            /\ imageData'[c].state = "fulfilled" =>
                   /\ imageData'[c].height = base64'[c].height
                   /\ imageData'[c].width = base64'[c].width

\* C11: with any number of scaleBase64 calls in flight and the host's
\* completions in any order, every step changes the state of at most one
\* call, and after it each call holds the outcome (string and dimensions,
\* failure, or still pending) it produces alone on its own string and
\* options.
C11_CallsAreIndependent ==
    [][/\ \A c, d \in ConcCalls :
              (c # d /\ CallState(c)' # CallState(c)) => CallState(d)' = CallState(d)
       /\ \A c \in ConcCalls : AsAlone(c)]_vars

C11_Witness ==
    \E c, d \in ConcCalls :
        /\ c # d
        /\ op[c] = "scaleBase64" /\ op[d] = "scaleBase64"
        /\ base64[c] # base64[d] /\ options[c] # options[d]
        /\ returned[c].state = "fulfilled" /\ canvas[c].drawn
        /\ image[d].state = "loaded" /\ job[d] = "then" /\ returned[d].state = "pending"

====
